---------------------------- MODULE Spec2Model ----------------------------
(***************************************************************************)
(* Salon search service of StyleMe                                         *)
(* (backend/backend_app/src/routes/salon_routes.py): the Haversine         *)
(* distance helper and the four read-only endpoints /nearby, /by_city,     *)
(* /all and /<salon_id>, over a store of Salon and Barber rows.            *)
(*                                                                         *)
(* Python values are tagged records: None, numbers, strings (sequences of  *)
(* one-character strings) and the float infinity.  Coordinates are numbers *)
(* in tenths of a degree; distances and radii are numbers in centimetres   *)
(* (1 km = 100000); the rounded `distance` attached to a result is in      *)
(* hundredths of a kilometre, as round(distance, 2) keeps two decimals.    *)
(***************************************************************************)
EXTENDS Integers, Sequences, FiniteSets, TLC

VARIABLES salons, barbers, request, response

vars == <<salons, barbers, request, response>>

(***************************************************************************)
(* Bounds of the model.                                                    *)
(***************************************************************************)
MaxSalons == 2
MaxBarbers == 2
MaxNameLen == 2

(***************************************************************************)
(* Python values.                                                          *)
(***************************************************************************)
None == [t |-> "none"]
Num(n) == [t |-> "num", n |-> n]
Str(s) == [t |-> "str", s |-> s]
Inf == [t |-> "inf"]

\* Python truthiness, as `not x`, `if x` and all([...]) apply it.
Truthy(v) ==
    CASE v.t = "none" -> FALSE
      [] v.t = "num" -> v.n # 0
      [] v.t = "str" -> v.s # <<>>
      [] v.t = "inf" -> TRUE

\* Outcome of evaluating a Python expression: a value, or a raised exception.
Return(v) == [k |-> "return", v |-> v]
Raise(e) == [k |-> "raise", e |-> e]

CmPerKm == 100 * 1000

(***************************************************************************)
(* calculate_distance.                                                     *)
(***************************************************************************)
\* Numeric coordinates of the model, in tenths of a degree.
Lats == {0, 299, 300, 301}
Lons == {0, 312, 313}

\* Lines 14-25 evaluated in IEEE doubles on (lat1, lon1, lat2, lon2), the
\* degrees being a tenth of each entry; the result c * 6371 km is given in
\* whole centimetres (floor).
HaversineTable ==
       <<0,0,0,0>> :> 0 @@ <<0,0,0,312>> :> 346928171 @@ <<0,0,0,313>> :> 348040120 @@
       <<0,0,299,0>> :> 332472830 @@ <<0,0,299,312>> :> 468570784 @@ <<0,0,299,313>> :> 469315630 @@
       <<0,0,300,0>> :> 333584779 @@ <<0,0,300,312>> :> 469278078 @@ <<0,0,300,313>> :> 470021266 @@
       <<0,0,301,0>> :> 334696729 @@ <<0,0,301,312>> :> 469986644 @@ <<0,0,301,313>> :> 470728175 @@
       <<0,312,0,0>> :> 346928171 @@ <<0,312,0,312>> :> 0 @@ <<0,312,0,313>> :> 1111949 @@
       <<0,312,299,0>> :> 468570784 @@ <<0,312,299,312>> :> 332472830 @@ <<0,312,299,313>> :> 332474518 @@
       <<0,312,300,0>> :> 469278078 @@ <<0,312,300,312>> :> 333584779 @@ <<0,312,300,313>> :> 333586460 @@
       <<0,312,301,0>> :> 469986644 @@ <<0,312,301,312>> :> 334696729 @@ <<0,312,301,313>> :> 334698403 @@
       <<0,313,0,0>> :> 348040120 @@ <<0,313,0,312>> :> 1111949 @@ <<0,313,0,313>> :> 0 @@
       <<0,313,299,0>> :> 469315630 @@ <<0,313,299,312>> :> 332474518 @@ <<0,313,299,313>> :> 332472830 @@
       <<0,313,300,0>> :> 470021266 @@ <<0,313,300,312>> :> 333586460 @@ <<0,313,300,313>> :> 333584779 @@
       <<0,313,301,0>> :> 470728175 @@ <<0,313,301,312>> :> 334698403 @@ <<0,313,301,313>> :> 334696729 @@
       <<299,0,0,0>> :> 332472830 @@ <<299,0,0,312>> :> 468570784 @@ <<299,0,0,313>> :> 469315630 @@
       <<299,0,299,0>> :> 0 @@ <<299,0,299,312>> :> 299807452 @@ <<299,0,299,313>> :> 300762164 @@
       <<299,0,300,0>> :> 1111949 @@ <<299,0,300,312>> :> 299656041 @@ <<299,0,300,313>> :> 300610238 @@
       <<299,0,301,0>> :> 2223898 @@ <<299,0,301,312>> :> 299508377 @@ <<299,0,301,313>> :> 300462047 @@
       <<299,312,0,0>> :> 468570784 @@ <<299,312,0,312>> :> 332472830 @@ <<299,312,0,313>> :> 332474518 @@
       <<299,312,299,0>> :> 299807452 @@ <<299,312,299,312>> :> 0 @@ <<299,312,299,313>> :> 963945 @@
       <<299,312,300,0>> :> 299656041 @@ <<299,312,300,312>> :> 1111949 @@ <<299,312,300,313>> :> 1471287 @@
       <<299,312,301,0>> :> 299508377 @@ <<299,312,301,312>> :> 2223898 @@ <<299,312,301,313>> :> 2423436 @@
       <<299,313,0,0>> :> 469315630 @@ <<299,313,0,312>> :> 332474518 @@ <<299,313,0,313>> :> 332472830 @@
       <<299,313,299,0>> :> 300762164 @@ <<299,313,299,312>> :> 963945 @@ <<299,313,299,313>> :> 0 @@
       <<299,313,300,0>> :> 300610238 @@ <<299,313,300,312>> :> 1471287 @@ <<299,313,300,313>> :> 1111949 @@
       <<299,313,301,0>> :> 300462047 @@ <<299,313,301,312>> :> 2423436 @@ <<299,313,301,313>> :> 2223898 @@
       <<300,0,0,0>> :> 333584779 @@ <<300,0,0,312>> :> 469278078 @@ <<300,0,0,313>> :> 470021266 @@
       <<300,0,299,0>> :> 1111949 @@ <<300,0,299,312>> :> 299656041 @@ <<300,0,299,313>> :> 300610238 @@
       <<300,0,300,0>> :> 0 @@ <<300,0,300,312>> :> 299500428 @@ <<300,0,300,313>> :> 300454125 @@
       <<300,0,301,0>> :> 1111949 @@ <<300,0,301,312>> :> 299348562 @@ <<300,0,301,313>> :> 300301744 @@
       <<300,312,0,0>> :> 469278078 @@ <<300,312,0,312>> :> 333584779 @@ <<300,312,0,313>> :> 333586460 @@
       <<300,312,299,0>> :> 299656041 @@ <<300,312,299,312>> :> 1111949 @@ <<300,312,299,313>> :> 1471287 @@
       <<300,312,300,0>> :> 299500428 @@ <<300,312,300,312>> :> 0 @@ <<300,312,300,313>> :> 962976 @@
       <<300,312,301,0>> :> 299348562 @@ <<300,312,301,312>> :> 1111949 @@ <<300,312,301,313>> :> 1470652 @@
       <<300,313,0,0>> :> 470021266 @@ <<300,313,0,312>> :> 333586460 @@ <<300,313,0,313>> :> 333584779 @@
       <<300,313,299,0>> :> 300610238 @@ <<300,313,299,312>> :> 1471287 @@ <<300,313,299,313>> :> 1111949 @@
       <<300,313,300,0>> :> 300454125 @@ <<300,313,300,312>> :> 962976 @@ <<300,313,300,313>> :> 0 @@
       <<300,313,301,0>> :> 300301744 @@ <<300,313,301,312>> :> 1470652 @@ <<300,313,301,313>> :> 1111949 @@
       <<301,0,0,0>> :> 334696729 @@ <<301,0,0,312>> :> 469986644 @@ <<301,0,0,313>> :> 470728175 @@
       <<301,0,299,0>> :> 2223898 @@ <<301,0,299,312>> :> 299508377 @@ <<301,0,299,313>> :> 300462047 @@
       <<301,0,300,0>> :> 1111949 @@ <<301,0,300,312>> :> 299348562 @@ <<301,0,300,313>> :> 300301744 @@
       <<301,0,301,0>> :> 0 @@ <<301,0,301,312>> :> 299192492 @@ <<301,0,301,313>> :> 300145172 @@
       <<301,312,0,0>> :> 469986644 @@ <<301,312,0,312>> :> 334696729 @@ <<301,312,0,313>> :> 334698403 @@
       <<301,312,299,0>> :> 299508377 @@ <<301,312,299,312>> :> 2223898 @@ <<301,312,299,313>> :> 2423436 @@
       <<301,312,300,0>> :> 299348562 @@ <<301,312,300,312>> :> 1111949 @@ <<301,312,300,313>> :> 1470652 @@
       <<301,312,301,0>> :> 299192492 @@ <<301,312,301,312>> :> 0 @@ <<301,312,301,313>> :> 962004 @@
       <<301,313,0,0>> :> 470728175 @@ <<301,313,0,312>> :> 334698403 @@ <<301,313,0,313>> :> 334696729 @@
       <<301,313,299,0>> :> 300462047 @@ <<301,313,299,312>> :> 2423436 @@ <<301,313,299,313>> :> 2223898 @@
       <<301,313,300,0>> :> 300301744 @@ <<301,313,300,312>> :> 1470652 @@ <<301,313,300,313>> :> 1111949 @@
       <<301,313,301,0>> :> 300145172 @@ <<301,313,301,312>> :> 962004 @@ <<301,313,301,313>> :> 0

Haversine(lat1, lon1, lat2, lon2) == HaversineTable[<<lat1, lon1, lat2, lon2>>]

\* all([lat1, lon1, lat2, lon2])
AllTruthy(lat1, lon1, lat2, lon2) ==
    Truthy(lat1) /\ Truthy(lon1) /\ Truthy(lat2) /\ Truthy(lon2)

\* math.radians raises TypeError on anything that is not a number.
calculate_distance(lat1, lon1, lat2, lon2) ==
    IF ~AllTruthy(lat1, lon1, lat2, lon2)
    THEN Return(Inf)
    ELSE IF \E x \in {lat1, lon1, lat2, lon2} : x.t # "num"
    THEN Raise("TypeError")
    ELSE Return(Num(Haversine(lat1.n, lon1.n, lat2.n, lon2.n)))

\* round(distance, 2): centimetres to the nearest hundredth of a kilometre;
\* infinity stays infinity.
Round2(d) ==
    IF d.t = "inf" THEN Inf
    ELSE Num((d.n \div 1000) + (IF d.n % 1000 >= 500 THEN 1 ELSE 0))

\* distance <= radius: TypeError unless both are numbers (or infinity).
Leq(d, r) ==
    IF r.t \notin {"num", "inf"} THEN Raise("TypeError")
    ELSE IF d.t = "inf" THEN Return(r.t = "inf")
    ELSE IF r.t = "inf" THEN Return(TRUE)
    ELSE Return(d.n <= r.n)

(***************************************************************************)
(* The persistence layer: Salon and Barber rows, and the queries the       *)
(* handlers issue.  `fault` is the number of the persistence call of the   *)
(* request that raises (0: none does); `n` is the number of the call.      *)
(***************************************************************************)
DbError == "OperationalError"

\* The same query with the is_approved filter left out.
all_salons_unfiltered(n, fault) ==
    IF fault = n THEN Raise(DbError)
    ELSE Return(salons)

\* Salon.query.filter_by(is_approved=True).all()
approved_salons(n, fault) ==
    IF fault = n THEN Raise(DbError)
    ELSE Return(SelectSeq(salons, LAMBDA s : s.is_approved))

\* Salon.query.get(salon_id): the row with that primary key, or None.
salon_get(salon_id, n, fault) ==
    IF fault = n THEN Raise(DbError)
    ELSE IF \E i \in 1..Len(salons) : salons[i].id = salon_id
    THEN Return(salons[CHOOSE i \in 1..Len(salons) : salons[i].id = salon_id])
    ELSE Return(None)

\* The same query with the salon_id filter left out.
barbers_unfiltered(salon_id, n, fault) ==
    IF fault = n THEN Raise(DbError)
    ELSE Return(barbers)

\* Barber.query.filter_by(salon_id=salon.id).all()
barbers_of(salon_id, n, fault) ==
    IF fault = n THEN Raise(DbError)
    ELSE Return(SelectSeq(barbers, LAMBDA b : b.salon_id = salon_id))

\* Salon.to_dict(): the row as a mapping.
to_dict(salon) == salon

\* d[k] = v on a mapping.
SetItem(d, k, v) == [x \in DOMAIN d \cup {k} |-> IF x = k THEN v ELSE d[x]]

\* dict.get(key, default)
Get(d, key, default) == IF key \in DOMAIN d THEN d[key] ELSE default

\* [{'id': b.id, 'name': b.name, 'specialty': b.specialty} for b in barbers]
barber_summaries(bs) ==
    [i \in 1..Len(bs) |->
        [id |-> bs[i].id, name |-> bs[i].name, specialty |-> bs[i].specialty]]

\* jsonify(body), status
Response(status, body) == [status |-> status, body |-> body]

\* The same handler with the status left out of the return, which Flask
\* answers with 200.
HandleWithoutStatus(outcome) ==
    IF outcome.k = "raise"
    THEN Response(200, [error |-> outcome.e])
    ELSE outcome.v

\* except Exception as e: return jsonify({'error': str(e)}), 500
Handle(outcome) ==
    IF outcome.k = "raise"
    THEN Response(500, [error |-> outcome.e])
    ELSE outcome.v

(***************************************************************************)
(* POST /nearby                                                            *)
(***************************************************************************)
\* A default of 5 km in place of 50 km.
DefaultRadiusFive == 5 * CmPerKm

\* data.get('radius', 50)
DefaultRadius == 50 * CmPerKm

\* Lines 42-48: the loop over the approved salons; `acc` is nearby_salons.
RECURSIVE nearby_loop(_, _, _, _, _)
nearby_loop(rest, user_lat, user_lon, radius, acc) ==
    IF rest = <<>> THEN Return(acc)
    ELSE LET salon == Head(rest) IN
      IF ~(Truthy(salon.latitude) /\ Truthy(salon.longitude))
      THEN nearby_loop(Tail(rest), user_lat, user_lon, radius, acc)
      ELSE LET distance == calculate_distance(user_lat, user_lon,
                                              salon.latitude, salon.longitude) IN
        IF distance.k = "raise" THEN distance
        ELSE LET within == Leq(distance.v, radius) IN
          IF within.k = "raise" THEN within
          ELSE IF within.v
          THEN nearby_loop(Tail(rest), user_lat, user_lon, radius,
                   Append(acc, SetItem(to_dict(salon), "distance",
                                       Round2(distance.v))))
          ELSE nearby_loop(Tail(rest), user_lat, user_lon, radius, acc)

\* The comparison of an unstable sort: an element also goes before its equals.
KeyLessOrEqual(x, y) ==
    IF y.distance.t = "inf" THEN TRUE
    ELSE IF x.distance.t = "inf" THEN FALSE
    ELSE x.distance.n <= y.distance.n

\* x['distance'] < y['distance'] on the rounded distances.
KeyLess(x, y) ==
    IF x.distance.t = "inf" THEN FALSE
    ELSE IF y.distance.t = "inf" THEN TRUE
    ELSE x.distance.n < y.distance.n

\* list.sort(key=...) is stable: an element goes after those that are not
\* greater than it.
RECURSIVE InsertSorted(_, _)
InsertSorted(sorted, x) ==
    IF sorted = <<>> THEN <<x>>
    ELSE IF KeyLess(x, Head(sorted)) THEN <<x>> \o sorted
    ELSE <<Head(sorted)>> \o InsertSorted(Tail(sorted), x)

RECURSIVE sort_by_distance(_)
sort_by_distance(list) ==
    IF list = <<>> THEN <<>>
    ELSE InsertSorted(sort_by_distance(SubSeq(list, 1, Len(list) - 1)),
                      list[Len(list)])

\* The body of the try block of get_nearby_salons; data is request.json.
nearby_body(data, fault) ==
    IF data.t # "dict" THEN Raise("AttributeError")
    ELSE LET user_lat == Get(data.d, "latitude", None)
             user_lon == Get(data.d, "longitude", None)
             radius == Get(data.d, "radius", Num(DefaultRadius)) IN
      IF ~Truthy(user_lat) \/ ~Truthy(user_lon)
      THEN Return(Response(400, [error |-> "User location (latitude and longitude) is required"]))
      ELSE LET found == approved_salons(1, fault) IN
        IF found.k = "raise" THEN found
        ELSE LET kept == nearby_loop(found.v, user_lat, user_lon, radius, <<>>) IN
          IF kept.k = "raise" THEN kept
          ELSE LET nearby_salons == sort_by_distance(kept.v) IN
            Return(Response(200, [salons |-> nearby_salons,
                                  total_count |-> Len(nearby_salons),
                                  search_radius |-> radius]))

get_nearby_salons(data, fault) == Handle(nearby_body(data, fault))

(***************************************************************************)
(* GET /by_city                                                            *)
(***************************************************************************)
\* lower() on one character and on a string.
LowerChar(c) ==
    CASE c = "A" -> "a"
      [] c = "B" -> "b"
      [] OTHER -> c

LowerStr(s) == [i \in 1..Len(s) |-> LowerChar(s[i])]

\* SQL LIKE: % matches any run of characters, _ any one character.
RECURSIVE Like(_, _)
Like(s, p) ==
    IF p = <<>> THEN s = <<>>
    ELSE IF Head(p) = "%"
    THEN Like(s, Tail(p)) \/ (s # <<>> /\ Like(Tail(s), p))
    ELSE /\ s # <<>>
         /\ (Head(p) = "_" \/ Head(p) = Head(s))
         /\ Like(Tail(s), Tail(p))

\* column.ilike(f'%{arg}%'): lower(column) LIKE lower('%arg%'); a NULL
\* column matches nothing.
ilike_contains(column, arg) ==
    /\ column.t = "str"
    /\ Like(LowerStr(column.s), LowerStr(<<"%">> \o arg.s \o <<"%">>))

\* Lines 68-75: the query with its optional filters.
filtered_salons(city, country, n, fault) ==
    IF fault = n THEN Raise(DbError)
    ELSE Return(SelectSeq(salons, LAMBDA s :
            /\ s.is_approved
            /\ (Truthy(city) => ilike_contains(s.city, city))
            /\ (Truthy(country) => ilike_contains(s.country, country))))

\* The enrichment loop of /by_city and /all; `n` numbers the barber query.
RECURSIVE enrich_loop(_, _, _, _)
enrich_loop(rest, n, fault, acc) ==
    IF rest = <<>> THEN Return(acc)
    ELSE LET salon == Head(rest)
             bs == barbers_of(salon.id, n, fault) IN
      IF bs.k = "raise" THEN bs
      ELSE enrich_loop(Tail(rest), n + 1, fault,
               Append(acc, SetItem(to_dict(salon), "barbers",
                                   barber_summaries(bs.v))))

by_city_body(city, country, fault) ==
    LET found == filtered_salons(city, country, 1, fault) IN
    IF found.k = "raise" THEN found
    ELSE LET salon_list == enrich_loop(found.v, 2, fault, <<>>) IN
      IF salon_list.k = "raise" THEN salon_list
      ELSE Return(Response(200, [salons |-> salon_list.v,
                                 total_count |-> Len(salon_list.v),
                                 filters |-> [city |-> city, country |-> country]]))

get_salons_by_city(city, country, fault) == Handle(by_city_body(city, country, fault))

(***************************************************************************)
(* GET /all                                                                *)
(***************************************************************************)
all_body(fault) ==
    LET found == approved_salons(1, fault) IN
    IF found.k = "raise" THEN found
    ELSE LET salon_list == enrich_loop(found.v, 2, fault, <<>>) IN
      IF salon_list.k = "raise" THEN salon_list
      ELSE Return(Response(200, [salons |-> salon_list.v,
                                 total_count |-> Len(salon_list.v)]))

get_all_salons(fault) == Handle(all_body(fault))

(***************************************************************************)
(* GET /<int:salon_id>                                                     *)
(***************************************************************************)
\* The same body with the is_approved test left out.
details_body_without_approval(salon_id, fault) ==
    LET salon == salon_get(salon_id, 1, fault) IN
    IF salon.k = "raise" THEN salon
    ELSE IF salon.v = None
    THEN Return(Response(404, [error |-> "Salon not found"]))
    ELSE LET bs == barbers_of(salon.v.id, 2, fault) IN
      IF bs.k = "raise" THEN bs
      ELSE Return(Response(200,
               [salon |-> SetItem(to_dict(salon.v), "barbers",
                                  barber_summaries(bs.v))]))

\* Lines 119-132: the body of the try block of get_salon_details.
details_body(salon_id, fault) ==
    LET salon == salon_get(salon_id, 1, fault) IN
    IF salon.k = "raise" THEN salon
    ELSE IF salon.v = None
    THEN Return(Response(404, [error |-> "Salon not found"]))
    ELSE IF ~salon.v.is_approved
    THEN Return(Response(403, [error |-> "Salon is not approved"]))
    ELSE LET bs == barbers_of(salon.v.id, 2, fault) IN
      IF bs.k = "raise" THEN bs
      ELSE Return(Response(200,
               [salon |-> SetItem(to_dict(salon.v), "barbers",
                                  barber_summaries(bs.v))]))

get_salon_details(salon_id, fault) == Handle(details_body(salon_id, fault))

(***************************************************************************)
(* Stores and requests of the model.                                       *)
(***************************************************************************)
\* Rows given the primary keys 1..k, in the order the queries return them.
WithIds(rows) == [i \in 1..Len(rows) |-> SetItem(rows[i], "id", i)]

\* A store: up to maxSalons salons and up to maxBarbers barbers.
Store(Salons, maxSalons, Barbers, maxBarbers) ==
    /\ \E k \in 0..maxSalons : \E rows \in [1..k -> Salons] :
           salons = WithIds(rows)
    /\ \E k \in 0..maxBarbers : \E rows \in [1..k -> Barbers] :
           barbers = WithIds(rows)

SalonRows(Latitudes, Longitudes, Cities, Countries) ==
    [is_approved : BOOLEAN, latitude : Latitudes, longitude : Longitudes,
     city : Cities, country : Countries]

BarberRows ==
    [salon_id : 1..MaxSalons, name : {Str(<<"a">>)}, specialty : {Str(<<"b">>)}]

\* Strings over an alphabet, up to a length.
Strings(Alphabet, max) ==
    UNION {[1..k -> Alphabet] : k \in 0..max}

\* request.json of /nearby: null, or an object holding any of the three keys.
\* The radii are 14.71 km and 5000 km; "a" stands for a value that is no number.
NearbyFields ==
    [latitude |-> {None, Num(0), Num(300), Str(<<"a">>)},
     longitude |-> {Num(0), Num(312)},
     radius |-> {None, Num(1471000), Num(5000 * CmPerKm), Str(<<"a">>)}]

NearbyDicts ==
    UNION {{d \in [K -> UNION {NearbyFields[k] : k \in K}] :
               \A k \in K : d[k] \in NearbyFields[k]} :
           K \in SUBSET {"latitude", "longitude", "radius"}}

NearbyJsons == {None} \cup {[t |-> "dict", d |-> d] : d \in NearbyDicts}

NoRequest == [op |-> "none"]
NoResponse == [status |-> 0, body |-> <<>>]

(***************************************************************************)
(* Actions: one per endpoint, the whole handler in one step.               *)
(***************************************************************************)
Nearby(FaultSet) ==
    \E data \in NearbyJsons, fault \in FaultSet :
        /\ request = NoRequest
        /\ request' = [op |-> "nearby", data |-> data, fault |-> fault]
        /\ response' = get_nearby_salons(data, fault)
        /\ UNCHANGED <<salons, barbers>>

ByCity(CityArgs, CountryArgs, FaultSet) ==
    \E city \in CityArgs, country \in CountryArgs, fault \in FaultSet :
        /\ request = NoRequest
        /\ request' = [op |-> "by_city", city |-> city, country |-> country,
                       fault |-> fault]
        /\ response' = get_salons_by_city(city, country, fault)
        /\ UNCHANGED <<salons, barbers>>

All(FaultSet) ==
    \E fault \in FaultSet :
        /\ request = NoRequest
        /\ request' = [op |-> "all", fault |-> fault]
        /\ response' = get_all_salons(fault)
        /\ UNCHANGED <<salons, barbers>>

Details(FaultSet) ==
    \E salon_id \in 0..(MaxSalons + 1), fault \in FaultSet :
        /\ request = NoRequest
        /\ request' = [op |-> "details", salon_id |-> salon_id, fault |-> fault]
        /\ response' = get_salon_details(salon_id, fault)
        /\ UNCHANGED <<salons, barbers>>

Distance ==
    \E lat1, lat2 \in {None} \cup {Num(x) : x \in Lats},
       lon1, lon2 \in {None} \cup {Num(x) : x \in Lons} :
        /\ request = NoRequest
        /\ request' = [op |-> "distance", lat1 |-> lat1, lon1 |-> lon1,
                       lat2 |-> lat2, lon2 |-> lon2]
        /\ response' = calculate_distance(lat1, lon1, lat2, lon2)
        /\ UNCHANGED <<salons, barbers>>

\* The response has been sent and the request context is gone: the next
\* request finds only the store.
Teardown ==
    /\ request # NoRequest
    /\ request' = NoRequest
    /\ response' = NoResponse
    /\ UNCHANGED <<salons, barbers>>

(***************************************************************************)
(* Specifications.                                                         *)
(***************************************************************************)
\* The four endpoints over small stores, persistence faults included.
Faults == 0..(MaxSalons + 1)

Init ==
    /\ Store(SalonRows({None, Num(300)}, {Num(312)},
                       {Str(<<"a">>)}, {Str(<<"b">>)}), MaxSalons,
             BarberRows, MaxBarbers)
    /\ request = NoRequest
    /\ response = NoResponse

Next ==
    \/ Nearby(Faults)
    \/ ByCity({None, Str(<<"a">>)}, {None, Str(<<"b">>)}, Faults)
    \/ All(Faults)
    \/ Details(Faults)
    \/ Teardown

Spec == Init /\ [][Next]_vars

\* /nearby over stores whose salons differ in approval and position.
InitNearby ==
    /\ Store(SalonRows({None, Num(0), Num(299), Num(300), Num(301)},
                       {None, Num(0), Num(312), Num(313)},
                       {Str(<<"a">>)}, {Str(<<"b">>)}), MaxSalons,
             BarberRows, 0)
    /\ request = NoRequest
    /\ response = NoResponse

NextNearby == Nearby({0}) \/ Teardown

SpecNearby == InitNearby /\ [][NextNearby]_vars

\* /by_city over stores whose salons differ in approval, city and country.
StoredChars == {"a", "A", "b"}
QueryChars == StoredChars \cup {"%", "_"}

InitCity ==
    /\ Store(SalonRows({Num(300)}, {Num(312)},
                  {None} \cup {Str(s) : s \in Strings(StoredChars, MaxNameLen)},
                  {Str(<<"a">>), Str(<<"A", "b">>)}), MaxSalons,
             BarberRows, 1)
    /\ request = NoRequest
    /\ response = NoResponse

NextCity ==
    \/ ByCity({None} \cup {Str(s) : s \in Strings(QueryChars, MaxNameLen)},
              {None, Str(<<"a">>), Str(<<"B">>), Str(<<"_">>)}, {0})
    \/ Teardown

SpecCity == InitCity /\ [][NextCity]_vars

\* calculate_distance on its own.
InitDistance ==
    /\ Store(SalonRows({None}, {None}, {None}, {None}), 0, BarberRows, 0)
    /\ request = NoRequest
    /\ response = NoResponse

NextDistance == Distance \/ Teardown

SpecDistance == InitDistance /\ [][NextDistance]_vars

(***************************************************************************)
(* Properties.                                                             *)
(***************************************************************************)
Result == response.body.salons

Ids(list) == {list[i].id : i \in 1..Len(list)}

IdSeq(list) == [i \in 1..Len(list) |-> list[i].id]

\* The position of a row in the order the salon query returns the rows.
StoreIndex(id) == CHOOSE i \in 1..Len(salons) : salons[i].id = id

RowOf(id) == salons[StoreIndex(id)]

Stored(id) == \E i \in 1..Len(salons) : salons[i].id = id

\* The user point and the radius of a /nearby request whose body is an object.
UserLat == Get(request.data.d, "latitude", None)
UserLon == Get(request.data.d, "longitude", None)
RadiusSupplied == "radius" \in DOMAIN request.data.d
RadiusUsed == IF RadiusSupplied THEN request.data.d.radius ELSE Num(50 * CmPerKm)

\* The great-circle distance in centimetres from the user point to a salon,
\* both given by numbers.
DistanceTo(s) == Haversine(UserLat.n, UserLon.n, s.latitude.n, s.longitude.n)

\* The salon lies within radius r of the user point.
Within(s, r) ==
    /\ UserLat.t = "num" /\ UserLon.t = "num" /\ r.t = "num"
    /\ s.latitude.t = "num" /\ s.longitude.t = "num"
    /\ DistanceTo(s) <= r.n

NearbyOk == request.op = "nearby" /\ response.status = 200

\* C1: every approved salon with both coordinates non-null, whatever their
\* value, whose distance to the user point is at most the radius is in the
\* result of a successful nearby search.
C1_NearbyComplete ==
    NearbyOk =>
        \A i \in 1..Len(salons) :
            ( /\ salons[i].is_approved
              /\ salons[i].latitude # None
              /\ salons[i].longitude # None
              /\ Within(salons[i], response.body.search_radius) )
            => salons[i].id \in Ids(Result)

\* C2: every salon in a successful nearby result is a stored salon that is
\* approved, has both coordinates, and lies within the radius used.
C2_NearbySound ==
    NearbyOk =>
        \A i \in 1..Len(Result) :
            /\ Stored(Result[i].id)
            /\ RowOf(Result[i].id).is_approved
            /\ Result[i].is_approved
            /\ RowOf(Result[i].id).latitude # None
            /\ RowOf(Result[i].id).longitude # None
            /\ Result[i].latitude = RowOf(Result[i].id).latitude
            /\ Result[i].longitude = RowOf(Result[i].id).longitude
            /\ Within(RowOf(Result[i].id), response.body.search_radius)

\* A successful search that returned a salon and kept out an unapproved
\* salon lying within the radius.
C2_Witness ==
    /\ NearbyOk
    /\ Len(Result) >= 1
    /\ \E i \in 1..Len(salons) :
           /\ ~salons[i].is_approved
           /\ Truthy(salons[i].latitude) /\ Truthy(salons[i].longitude)
           /\ Within(salons[i], response.body.search_radius)

\* C3: a lookup ends in 404 exactly when the salon query answers and no
\* salon has the id, in 403 exactly when it answers with an unapproved salon,
\* in 200 exactly when the salon is approved and both queries answer, and
\* otherwise in 500; only a 200 carries salon data, that of the approved
\* salon asked for with the barbers of that salon.
C3_LookupOutcome ==
    request.op = "details" =>
        LET id == request.salon_id
            exists == Stored(id)
            approved == exists /\ RowOf(id).is_approved
        IN  /\ response.status \in {200, 403, 404, 500}
            /\ (response.status = 404) <=> (request.fault # 1 /\ ~exists)
            /\ (response.status = 403) <=>
                   (request.fault # 1 /\ exists /\ ~approved)
            /\ (response.status = 200) <=>
                   (request.fault \notin {1, 2} /\ approved)
            /\ response.status # 200 => DOMAIN response.body = {"error"}
            /\ response.status = 200 =>
                   /\ DOMAIN response.body = {"salon"}
                   /\ response.body.salon.id = id
                   /\ response.body.salon.is_approved
                   /\ \A k \in 1..Len(response.body.salon.barbers) :
                          \E j \in 1..Len(barbers) :
                              /\ barbers[j].salon_id = id
                              /\ barbers[j].id = response.body.salon.barbers[k].id

\* A lookup of a stored, unapproved salon that was answered with 403.
C3_Witness ==
    /\ request.op = "details"
    /\ Stored(request.salon_id)
    /\ ~RowOf(request.salon_id).is_approved
    /\ response.status = 403

\* C4: a nearby result is ascending in the attached distance, and salons
\* with the same attached distance keep the order of the salon query.
C4_SortedStable ==
    NearbyOk =>
        \A i, j \in 1..Len(Result) :
            i < j =>
                /\ Result[i].distance.n <= Result[j].distance.n
                /\ Result[i].distance.n = Result[j].distance.n =>
                       StoreIndex(Result[i].id) < StoreIndex(Result[j].id)

\* A result in which the sort moved a later row in front of an earlier one.
C4_Witness ==
    /\ NearbyOk
    /\ Len(Result) >= 2
    /\ StoreIndex(Result[1].id) > StoreIndex(Result[2].id)
    /\ Result[1].distance.n < Result[2].distance.n

\* The request carries no latitude or no longitude: the body is null, or the
\* key is missing or null.
LocationAbsent ==
    \/ request.data.t # "dict"
    \/ UserLat = None
    \/ UserLon = None

\* C5: a nearby request without a latitude or without a longitude, a null
\* body included, is answered with 400 and an error only.
C5_AbsentLocationIs400 ==
    (request.op = "nearby" /\ LocationAbsent) =>
        (response.status = 400 /\ DOMAIN response.body = {"error"})

\* s contains sub as a run of consecutive characters.
Contains(s, sub) ==
    \E i \in 0..(Len(s) - Len(sub)) : SubSeq(s, i + 1, i + Len(sub)) = sub

\* The column passes the filter: none was given, or the column contains it,
\* letter case aside.
PassesFilter(column, arg) ==
    Truthy(arg) =>
        (column.t = "str" /\ Contains(LowerStr(column.s), LowerStr(arg.s)))

\* C6: the location-name search returns exactly the approved salons whose
\* city contains the city given and whose country contains the country
\* given, letter case aside.
C6_ByCityExact ==
    (request.op = "by_city" /\ response.status = 200) =>
        IdSeq(Result) =
            IdSeq(SelectSeq(salons, LAMBDA s :
                /\ s.is_approved
                /\ PassesFilter(s.city, request.city)
                /\ PassesFilter(s.country, request.country)))

\* C7: the distance from a point with both coordinates non-null to itself is
\* 0, and infinity is returned only when one of the four is absent.
C7_DistanceToSelf ==
    request.op = "distance" =>
        LET present == /\ request.lat1 # None /\ request.lon1 # None
                       /\ request.lat2 # None /\ request.lon2 # None
        IN  /\ ( /\ present
                 /\ request.lat1 = request.lat2
                 /\ request.lon1 = request.lon2 ) => response = Return(Num(0))
            /\ response = Return(Inf) => ~present

\* The salons a search is to return, by endpoint.
Expected ==
    CASE request.op = "nearby" ->
           SelectSeq(salons, LAMBDA s :
               /\ s.is_approved /\ Truthy(s.latitude) /\ Truthy(s.longitude)
               /\ Within(s, RadiusUsed))
      [] request.op = "by_city" ->
           SelectSeq(salons, LAMBDA s :
               /\ s.is_approved
               /\ (Truthy(request.city) => ilike_contains(s.city, request.city))
               /\ (Truthy(request.country) =>
                       ilike_contains(s.country, request.country)))
      [] request.op = "all" -> SelectSeq(salons, LAMBDA s : s.is_approved)
      [] request.op = "details" ->
           SelectSeq(salons, LAMBDA s : s.id = request.salon_id /\ s.is_approved)

\* Something raises while the request is computed: a persistence call that
\* the handler reaches, a body that is no object, or a coordinate or radius
\* that is no number once a salon is to be measured.
Raises ==
    CASE request.op = "nearby" ->
           \/ request.data.t # "dict"
           \/ /\ Truthy(UserLat) /\ Truthy(UserLon)
              /\ \/ request.fault = 1
                 \/ /\ \E i \in 1..Len(salons) :
                           /\ salons[i].is_approved
                           /\ Truthy(salons[i].latitude)
                           /\ Truthy(salons[i].longitude)
                    /\ \/ UserLat.t # "num"
                       \/ UserLon.t # "num"
                       \/ RadiusUsed.t # "num"
      [] request.op \in {"by_city", "all"} ->
           request.fault \in 1..(1 + Len(Expected))
      [] request.op = "details" ->
           \/ request.fault = 1
           \/ request.fault = 2 /\ Expected # <<>>

\* C8: every request to the four endpoints ends in one of 200, 400, 403, 404
\* and 500; a 200 carries no error and the whole result; every other status
\* carries the error alone; and whatever raises while computing ends in 500.
C8_OneOutcome ==
    request.op \in {"nearby", "by_city", "all", "details"} =>
        /\ response.status \in {200, 400, 403, 404, 500}
        /\ Raises => response.status = 500
        /\ response.status # 200 => DOMAIN response.body = {"error"}
        /\ response.status = 200 =>
               /\ "error" \notin DOMAIN response.body
               /\ IF request.op = "details"
                  THEN <<response.body.salon.id>> = IdSeq(Expected)
                  ELSE /\ Ids(Result) = Ids(Expected)
                       /\ Len(Result) = Len(Expected)
                       /\ response.body.total_count = Len(Expected)

\* A full listing that raised at the barber query of the second salon, after
\* the first salon had been processed.
C8_Witness ==
    /\ request.op = "all"
    /\ request.fault = 3
    /\ Len(SelectSeq(salons, LAMBDA s : s.is_approved)) >= 2
    /\ response.status = 500

\* The summaries of the barbers of a salon, in the order of the barber query.
SummariesOf(id) ==
    LET own == SelectSeq(barbers, LAMBDA b : b.salon_id = id)
    IN  [i \in 1..Len(own) |->
            [id |-> own[i].id, name |-> own[i].name,
             specialty |-> own[i].specialty]]

\* C9: the full listing returns every approved salon once and no unapproved
\* one, each with exactly the barbers of that salon as {id, name, specialty},
\* and total_count is the number of salons returned.
C9_ListingEnriched ==
    (request.op = "all" /\ response.status = 200) =>
        /\ IdSeq(Result) = IdSeq(SelectSeq(salons, LAMBDA s : s.is_approved))
        /\ \A i \in 1..Len(Result) :
               /\ Result[i].is_approved
               /\ Result[i].barbers = SummariesOf(Result[i].id)
        /\ response.body.total_count = Len(Result)

\* A listing with an approved salon that has a barber, while another barber
\* belongs to another salon and another salon is unapproved.
C9_Witness ==
    /\ request.op = "all"
    /\ response.status = 200
    /\ \E i \in 1..Len(Result) : Len(Result[i].barbers) >= 1
    /\ \E i \in 1..Len(Result), j \in 1..Len(barbers) :
           barbers[j].salon_id # Result[i].id
    /\ \E i \in 1..Len(salons) : ~salons[i].is_approved

\* C10: without a radius in the request the search filters with 50 km and
\* reports 50 km; with one it filters with that value and reports it
\* unchanged; total_count is the length of the list returned.
C10_RadiusUsed ==
    NearbyOk =>
        /\ response.body.search_radius = RadiusUsed
        /\ response.body.total_count = Len(Result)
        /\ Ids(Result) = Ids(Expected)
        /\ Len(Result) = Len(Expected)

\* A search without a radius that returned a salon further than 5 km away.
C10_Witness ==
    /\ NearbyOk
    /\ ~RadiusSupplied
    /\ \E i \in 1..Len(Result) : Result[i].distance.n > 500

=============================================================================
